---- MODULE Spec2Model ----
(***************************************************************************)
(* PostProcess (src/unnamed/part_000): the post-processing of a rendered   *)
(* PDF's object graph.  metadata() fills the info dictionary, toc() lowers *)
(* a TOC forest into the outline graph, cover() prepends a cover page and  *)
(* save() serialises the graph and optionally hands it to press-ready.     *)
(***************************************************************************)
EXTENDS Integers, Sequences, FiniteSets, TLC

VARIABLES
    document,       \* this.document: context, catalog, info dictionary, pages
    loaded,         \* the document as PostProcess.load returned it
    done,           \* the operations that have returned
    threw,          \* the operations that have thrown
    tocItems,       \* the argument the toc() call is given
    itemsWithRefs,  \* toc()'s local itemsWithRefs when it returned
    outlineRef,     \* toc()'s local outlineRef (0 before any allocation)
    metaTree,       \* the argument the metadata() call is given
    coverArg,       \* the arguments the cover() call is given and the file it reads
    saveCall        \* the save() call: its arguments, position and effects

vars == <<document, loaded, done, threw, tocItems, itemsWithRefs, outlineRef,
          metaTree, coverArg, saveCall>>

(***************************************************************************)
(* Bounds of the model.                                                    *)
(***************************************************************************)
MaxNodes == 5           \* TOC forests have at most this many nodes
MaxLoadedObjects == 3   \* the loaded document holds at most this many objects
MaxTerms == 2           \* a metadata record holds at most this many terms
MaxVals == 2            \* a creator, subject or contributor term has at most this many entries
MaxPages == 2           \* the loaded document has at most this many pages
MaxUuid == 2            \* at most this many uuids were drawn before save()
PipeNodes == 3          \* TOC forests of the whole pipeline have at most this many nodes

NoArg == [given |-> FALSE]
Arg(v) == [given |-> TRUE, v |-> v]

(***************************************************************************)
(* TOC forests (TOCItem[]): every ordered forest with n nodes.  Ids number *)
(* the nodes from base + 1; the title of node k is the text 100 + k.       *)
(***************************************************************************)
RECURSIVE ForestsOf(_, _)
ForestsOf(n, base) ==
    IF n = 0 THEN {<<>>}
    ELSE UNION { { <<[id |-> base + 1, title |-> 100 + base + 1, children |-> c]>> \o rest :
                     c \in ForestsOf(k, base + 1),
                     rest \in ForestsOf(n - 1 - k, base + 1 + k) } :
                 k \in 0..(n - 1) }

Forests == UNION { ForestsOf(n, 0) : n \in 0..MaxNodes }

(***************************************************************************)
(* The PDF context (pdf-lib's PDFContext as PostProcess uses it).          *)
(***************************************************************************)
EmptyDict == [k \in {} |-> 0]

nextRef_Reuse(ctx) == [ref |-> ctx.largestObjectNumber, ctx |-> ctx]

\* context.nextRef(): the next object number, never handed out before
nextRef(ctx) ==
    [ref |-> ctx.largestObjectNumber + 1,
     ctx |-> [ctx EXCEPT !.largestObjectNumber = @ + 1]]

\* context.assign(ref, object)
assign(ctx, ref, object) ==
    [ctx EXCEPT !.indirectObjects = (ref :> object) @@ @,
                !.assignLog = Append(@, ref),
                !.largestObjectNumber = IF ref > @ THEN ref ELSE @]

HexFromText(text) == <<"HexString", text>>
NameOf(id) == <<"Name", id>>

\* dict.set(PDFName.of(key), value)
DictSet(dict, key, value) == (key :> value) @@ dict

(***************************************************************************)
(* JavaScript numbers: positive IEEE-754 doubles, value                    *)
(* 1.b2 b3 ... b53 (binary) * 2^exp, rounded to nearest, ties to even.     *)
(* The operands of cover()'s arithmetic are integers held in doubles.      *)
(***************************************************************************)
Precision == 53

RECURSIVE BitsOf(_)
BitsOf(n) == IF n < 2 THEN <<n>> ELSE Append(BitsOf(n \div 2), n % 2)

RECURSIVE Pow2(_)
Pow2(k) == IF k = 0 THEN 1 ELSE 2 * Pow2(k - 1)

\* the double holding the integer n >= 1
FromInt(n) ==
    LET b == BitsOf(n)
    IN [exp |-> Len(b) - 1,
        bits |-> b \o [i \in 1..(Precision - Len(b)) |-> 0]]

\* the integer held by the bits b, most significant first
RECURSIVE ValueOf(_)
ValueOf(b) == IF b = <<>> THEN 0 ELSE 2 * ValueOf(SubSeq(b, 1, Len(b) - 1)) + b[Len(b)]

\* the k low bits of n
LowBits(n, k) ==
    LET b == BitsOf(n % Pow2(k))
    IN [i \in 1..(k - Len(b)) |-> 0] \o b

\* the mantissa plus one unit in the last place
Incr(bits) ==
    LET j == CHOOSE i \in 1..Len(bits) :
                 bits[i] = 0 /\ \A k \in (i + 1)..Len(bits) : bits[k] = 1
    IN [i \in 1..Len(bits) |-> IF i < j THEN bits[i] ELSE IF i = j THEN 1 ELSE 0]

RoundUp(f) ==
    IF \A i \in 1..Precision : f.bits[i] = 1
    THEN [exp |-> f.exp + 1, bits |-> [i \in 1..Precision |-> IF i = 1 THEN 1 ELSE 0]]
    ELSE [f EXCEPT !.bits = Incr(@)]

\* k quotient bits of r / d (0 <= r < 2d) by long division, six bits a step,
\* and the doubled remainder
RECURSIVE LongDiv(_, _, _)
LongDiv(r, d, k) ==
    IF k = 0 THEN [bits |-> <<>>, rem |-> r]
    ELSE LET c == IF k < 6 THEN k ELSE 6
             scaled == r * Pow2(c - 1)
             rest == LongDiv(2 * (scaled % d), d, k - c)
         IN [bits |-> LowBits(scaled \div d, c) \o rest.bits, rem |-> rest.rem]

\* a / b for doubles holding the integers a, b >= 1
DivInts(a, b) ==
    LET la == Len(BitsOf(a))
        lb == Len(BitsOf(b))
        a1 == IF la >= lb THEN a ELSE a * Pow2(lb - la)
        b1 == IF la >= lb THEN b * Pow2(la - lb) ELSE b
        e == IF a1 >= b1 THEN la - lb ELSE la - lb - 1
        num == IF a1 >= b1 THEN a1 ELSE 2 * a1
        q == LongDiv(num, b1, Precision)
        down == [exp |-> e, bits |-> q.bits]
    IN IF q.rem > b1 \/ (q.rem = b1 /\ q.bits[Precision] = 1)
       THEN RoundUp(down) ELSE down

\* the exact product n * mantissa, six bits a step from the low end
RECURSIVE MulBits(_, _, _, _)
MulBits(n, bits, i, carry) ==
    IF carry = 0 /\ i = 0 THEN <<>>
    ELSE IF i = 0 THEN BitsOf(carry)
    ELSE LET c == IF i < 6 THEN i ELSE 6
             t == n * ValueOf(SubSeq(bits, i - c + 1, i)) + carry
         IN MulBits(n, bits, i - c, t \div Pow2(c)) \o LowBits(t, c)

\* n * f for the double holding the integer n >= 1 and the double f
MulInt(n, f) ==
    LET full == MulBits(n, f.bits, Precision, 0)
        extra == Len(full) - Precision
        down == [exp |-> f.exp + extra, bits |-> SubSeq(full, 1, Precision)]
        guard == IF extra > 0 THEN full[Precision + 1] ELSE 0
        sticky == \E i \in (Precision + 2)..Len(full) : full[i] = 1
    IN IF guard = 1 /\ (sticky \/ full[Precision] = 1)
       THEN RoundUp(down) ELSE down

(***************************************************************************)
(* toc(): addRefs, countAll, addObjectsToPDF and the outline root.         *)
(***************************************************************************)
RECURSIVE addRefs(_, _, _)
addRefs(items, parentRef, ctx) ==
    IF items = <<>> THEN [items |-> <<>>, ctx |-> ctx]
    ELSE LET item == Head(items)
             r == nextRef(ctx)
             kids == addRefs(item.children, r.ref, r.ctx)
             rest == addRefs(Tail(items), parentRef, kids.ctx)
         IN [items |-> <<[id |-> item.id, title |-> item.title,
                          parentRef |-> parentRef, ref |-> r.ref,
                          children |-> kids.items]>> \o rest.items,
             ctx |-> rest.ctx]

RECURSIVE countAll(_)
countAll_Direct(items) == Len(items)

RECURSIVE SumCounts(_, _)
SumCounts(items, i) ==
    IF i > Len(items) THEN 0
    ELSE countAll(items[i].children) + SumCounts(items, i + 1)

countAll(items) == Len(items) + SumCounts(items, 1)

SiblingLinks_NoGuard(items, i, child) ==
    LET withPrev == IF i > 1 THEN DictSet(child, "Prev", items[i - 1].ref) ELSE child
    IN DictSet(withPrev, "Next", IF i < Len(items) THEN items[i + 1].ref ELSE 0)

\* const prev = items[i - 1]; if (prev) ...; const next = items[i + 1]; if (next) ...
SiblingLinks(items, i, child) ==
    LET withPrev == IF i > 1 THEN DictSet(child, "Prev", items[i - 1].ref) ELSE child
    IN IF i < Len(items) THEN DictSet(withPrev, "Next", items[i + 1].ref) ELSE withPrev

ChildLinks_Swapped(children, dict) ==
    IF Len(children) # 0
    THEN DictSet(DictSet(DictSet(dict, "First", children[Len(children)].ref),
                         "Last", children[1].ref),
                 "Count", countAll(children))
    ELSE dict

\* if (item.children.length) { First, Last, Count }
ChildLinks(children, dict) ==
    IF Len(children) # 0
    THEN DictSet(DictSet(DictSet(dict, "First", children[1].ref),
                         "Last", children[Len(children)].ref),
                 "Count", countAll(children))
    ELSE dict

OutlineItemDict(items, i) ==
    LET item == items[i]
        child == DictSet(DictSet(DictSet(EmptyDict, "Title", HexFromText(item.title)),
                                 "Dest", NameOf(item.id)),
                         "Parent", item.parentRef)
    IN ChildLinks(item.children, SiblingLinks(items, i, child))

RECURSIVE addObjectsFrom(_, _, _)
addObjectsFrom(items, i, ctx) ==
    IF i > Len(items) THEN ctx
    ELSE LET assigned == assign(ctx, items[i].ref, OutlineItemDict(items, i))
             below == addObjectsFrom(items[i].children, 1, assigned)
         IN addObjectsFrom(items, i + 1, below)

addObjectsToPDF(items, ctx) == addObjectsFrom(items, 1, ctx)

\* lines 152-164: the outline of a non-empty forest
BuildOutline(doc, items) ==
    LET root == nextRef(doc.context)
        refs == addRefs(items, root.ref, root.ctx)
        filled == addObjectsToPDF(refs.items, refs.ctx)
        outline == ChildLinks(refs.items, EmptyDict)
        ctx == assign(filled, root.ref, outline)
    IN [document |-> [doc EXCEPT !.context = ctx,
                                 !.catalog = DictSet(@, "Outlines", root.ref)],
        itemsWithRefs |-> refs.items,
        outlineRef |-> root.ref]

toc_AllocFirst(doc, arg) ==
    IF ~arg.given \/ Len(arg.v) = 0
    THEN [document |-> [doc EXCEPT !.context = nextRef(doc.context).ctx],
          itemsWithRefs |-> <<>>, outlineRef |-> nextRef(doc.context).ref]
    ELSE BuildOutline(doc, arg.v)

\* The result of toc(items) on doc: the document and the locals
toc(doc, arg) ==
    IF ~arg.given \/ Len(arg.v) = 0
    THEN [document |-> doc, itemsWithRefs |-> <<>>, outlineRef |-> 0]
    ELSE BuildOutline(doc, arg.v)

(***************************************************************************)
(* Metadata records (Meta): a map from the terms of metaTerms to sequences *)
(* of entries {v, r?}; r maps the role term to a sequence of entries.      *)
(***************************************************************************)
FirstValueTerms == {"title", "description", "language", "created", "date"}
AllValueTerms == {"creator", "subject"}
Terms == FirstValueTerms \cup AllValueTerms \cup {"contributor"}

RECURSIVE SeqsUpTo(_, _)
SeqsUpTo(S, n) ==
    IF n = 0 THEN {<<>>}
    ELSE LET shorter == SeqsUpTo(S, n - 1)
         IN shorter \cup { Append(q, x) : q \in {t \in shorter : Len(t) = n - 1}, x \in S }

Entry(text) == [v |-> text]
RoleEntry(text, roles) == [v |-> text, r |-> [role |-> [i \in 1..Len(roles) |-> Entry(roles[i])]]]

FirstValueEntries ==
    { <<>>, <<Entry("")>>, <<Entry("A")>>, <<Entry(""), Entry("A")>> }

ContributorEntries ==
    { Entry("A"), RoleEntry("B", <<"bkp">>), RoleEntry("", <<"bkp">>),
      RoleEntry("A", <<>>), RoleEntry("A", <<"aut", "bkp">>) }

ValuesOf(term, maxVals) ==
    IF term \in FirstValueTerms THEN FirstValueEntries
    ELSE IF term \in AllValueTerms THEN SeqsUpTo({Entry(""), Entry("A")}, maxVals)
    ELSE SeqsUpTo(ContributorEntries, maxVals)

RECURSIVE RecordsOver(_, _)
RecordsOver(S, maxVals) ==
    IF S = {} THEN {EmptyDict}
    ELSE LET t == CHOOSE x \in S : TRUE
         IN { (t :> v) @@ rec : v \in ValuesOf(t, maxVals), rec \in RecordsOver(S \ {t}, maxVals) }

\* the sets of terms a record with at most maxTerms terms may hold
TermSets(maxTerms) == {T \in SUBSET Terms : Cardinality(T) <= maxTerms}

(***************************************************************************)
(* metadata(): the setters of PDFDocument and the seven gated fields.      *)
(***************************************************************************)
SetInfo(doc, field, value) == [doc EXCEPT !.info = DictSet(@, field, value)]
\* setLanguage writes the catalog's Lang entry
SetLanguage(doc, value) == [doc EXCEPT !.catalog = DictSet(@, "Lang", value)]

Returned(doc) == [document |-> doc, threw |-> FALSE]
Thrown(doc) == [document |-> doc, threw |-> TRUE]

\* tree[term]?.[0].v
FirstV(tree, term) ==
    IF term \notin DOMAIN tree THEN [kind |-> "undefined"]
    ELSE IF Len(tree[term]) = 0 THEN [kind |-> "throw"]
    ELSE [kind |-> "value", v |-> tree[term][1].v]

FirstValueField_NoGuard(doc, tree, term, field) ==
    LET x == FirstV(tree, term)
    IN IF x.kind = "throw" THEN Thrown(doc)
       ELSE IF x.kind = "value" THEN Returned(SetInfo(doc, field, x.v))
       ELSE Returned(doc)

\* const x = tree[term]?.[0].v; if (x) set(x)
FirstValueField(doc, tree, term, field) ==
    LET x == FirstV(tree, term)
    IN IF x.kind = "throw" THEN Thrown(doc)
       ELSE IF x.kind = "value" /\ x.v # "" THEN Returned(SetInfo(doc, field, x.v))
       ELSE Returned(doc)

\* items.map((item) => item.v).join('; ')
RECURSIVE Join(_)
Join(items) ==
    IF Len(items) = 0 THEN ""
    ELSE IF Len(items) = 1 THEN items[1].v
    ELSE items[1].v \o "; " \o Join(Tail(items))

AuthorField(doc, tree) ==
    IF "creator" \in DOMAIN tree /\ Join(tree["creator"]) # ""
    THEN Returned(SetInfo(doc, "Author", Join(tree["creator"])))
    ELSE Returned(doc)

\* an array, even an empty one, is truthy
KeywordsField(doc, tree) ==
    IF "subject" \in DOMAIN tree
    THEN Returned(SetInfo(doc, "Keywords",
                          [i \in 1..Len(tree["subject"]) |-> tree["subject"][i].v]))
    ELSE Returned(doc)

\* item.r?.[metaTerms.role]?.[0].v === 'bkp'
IsBookProducer(item) ==
    IF "r" \notin DOMAIN item THEN [kind |-> "value", v |-> FALSE]
    ELSE IF "role" \notin DOMAIN item.r THEN [kind |-> "value", v |-> FALSE]
    ELSE IF Len(item.r.role) = 0 THEN [kind |-> "throw"]
    ELSE [kind |-> "value", v |-> item.r.role[1].v = "bkp"]

\* tree[metaTerms.contributor]?.find(...)?.v
RECURSIVE FindBookProducer(_, _)
FindBookProducer(items, i) ==
    IF i > Len(items) THEN [kind |-> "undefined"]
    ELSE LET hit == IsBookProducer(items[i])
         IN IF hit.kind = "throw" THEN hit
            ELSE IF hit.v THEN [kind |-> "value", v |-> items[i].v]
            ELSE FindBookProducer(items, i + 1)

CreatorField_AnyRole(doc, tree) ==
    IF "contributor" \in DOMAIN tree /\ Len(tree["contributor"]) > 0
       /\ tree["contributor"][1].v # ""
    THEN Returned(SetInfo(doc, "Creator", tree["contributor"][1].v))
    ELSE Returned(doc)

\* const creator = ...; if (creator) this.document.setCreator(creator)
CreatorField(doc, tree) ==
    LET x == IF "contributor" \in DOMAIN tree
             THEN FindBookProducer(tree["contributor"], 1)
             ELSE [kind |-> "undefined"]
    IN IF x.kind = "throw" THEN Thrown(doc)
       ELSE IF x.kind = "value" /\ x.v # "" THEN Returned(SetInfo(doc, "Creator", x.v))
       ELSE Returned(doc)

LanguageField(doc, tree) ==
    LET x == FirstV(tree, "language")
    IN IF x.kind = "throw" THEN Thrown(doc)
       ELSE IF x.kind = "value" /\ x.v # "" THEN Returned(SetLanguage(doc, x.v))
       ELSE Returned(doc)

\* new Date(text): a Date object, truthy even when the text is no date
NewDate(text) == [date |-> text]

\* (tree[created] || tree[date])?.[0].v
CreationDateField(doc, tree) ==
    LET x == IF "created" \in DOMAIN tree THEN FirstV(tree, "created")
             ELSE FirstV(tree, "date")
    IN IF x.kind = "throw" THEN Thrown(doc)
       ELSE IF x.kind = "value" /\ x.v # ""
            THEN Returned(SetInfo(doc, "CreationDate", NewDate(x.v)))
       ELSE Returned(doc)

Producer == "Vivliostyle"

\* The result of metadata(tree) on doc: the document, and whether it threw
metadata(doc, tree) ==
    LET s1 == FirstValueField(SetInfo(doc, "Producer", Producer), tree, "title", "Title")
        s2 == IF s1.threw THEN s1 ELSE AuthorField(s1.document, tree)
        s3 == IF s2.threw THEN s2
              ELSE FirstValueField(s2.document, tree, "description", "Subject")
        s4 == IF s3.threw THEN s3 ELSE KeywordsField(s3.document, tree)
        s5 == IF s4.threw THEN s4 ELSE CreatorField(s4.document, tree)
        s6 == IF s5.threw THEN s5 ELSE LanguageField(s5.document, tree)
    IN IF s6.threw THEN s6 ELSE CreationDateField(s6.document, tree)

(***************************************************************************)
(* cover(): the cover descriptor, the image file and the inserted page.    *)
(***************************************************************************)
PageWidths == {600, 612}
ImageSides == {73, 800, 1200}
MediaTypes == {"image/png", "image/jpeg", "image/gif"}

\* what fs.promises.readFile and embedPng / embedJpg find at imagePath
Files == {[readable |-> FALSE]} \cup
         { [readable |-> TRUE, width |-> w, height |-> h] : w \in ImageSides, h \in ImageSides }

\* cover === null, or {src, mediaType}; pathname is url.parse(src).pathname
CoverInputs ==
    {NoArg} \cup
    { Arg([pathname |-> p, mediaType |-> m, file |-> f]) :
        p \in {"", "cover.png"}, m \in MediaTypes, f \in Files }

\* image.scale(factor): {width: width * factor, height: height * factor}
Scale(image, factor) ==
    [width |-> MulInt(image.width, factor), height |-> MulInt(image.height, factor)]

\* the integer a page width holds (the loaded pages have whole-number widths)
IntOf(f) == ValueOf(SubSeq(f.bits, 1, f.exp + 1))

InsertCoverPage_NewCatalog(doc, image, imageSize) ==
    LET pageRef == nextRef(nextRef(doc.context).ctx)
        withPage == assign(pageRef.ctx, pageRef.ref, ("Page" :> 0))
        stream == nextRef(withPage)
        withStream == assign(stream.ctx, stream.ref, ("Contents" :> pageRef.ref))
        page == [width |-> imageSize.width, height |-> imageSize.height,
                 drawn |-> <<[image |-> [width |-> image.width, height |-> image.height],
                              x |-> 0, y |-> 0,
                              width |-> imageSize.width, height |-> imageSize.height]>>]
    IN [doc EXCEPT !.context = withStream, !.pages = <<page>> \o @,
                   !.catalog = ("Pages" :> pageRef.ref)]

\* document.insertPage(0, [width, height]) and page.drawImage(image, imageSize)
InsertCoverPage(doc, image, imageSize) ==
    LET embedded == nextRef(doc.context)
        pageRef == nextRef(embedded.ctx)
        withPage == assign(pageRef.ctx, pageRef.ref, ("Page" :> 0))
        stream == nextRef(withPage)
        withStream == assign(stream.ctx, stream.ref, ("Contents" :> pageRef.ref))
        page == [width |-> imageSize.width, height |-> imageSize.height,
                 drawn |-> <<[image |-> [width |-> image.width, height |-> image.height],
                              x |-> 0, y |-> 0,
                              width |-> imageSize.width, height |-> imageSize.height]>>]
    IN [doc EXCEPT !.context = withStream, !.pages = <<page>> \o @]

\* this.document.getPage(0).getWidth()
TargetWidth(doc) == IntOf(doc.pages[1].width)

\* The result of cover(cover, root) on doc: the document, and whether it threw
cover(doc, arg) ==
    IF ~arg.given THEN Returned(doc)
    ELSE IF arg.v.pathname = "" THEN Returned(doc)
    ELSE IF arg.v.mediaType \notin {"image/png", "image/jpeg"} THEN Returned(doc)
    ELSE IF ~arg.v.file.readable THEN Thrown(doc)
    ELSE LET image == [width |-> arg.v.file.width, height |-> arg.v.file.height]
             targetWidth == TargetWidth(doc)
             imageSize == Scale(image, DivInts(targetWidth, image.width))
         IN Returned(InsertCoverPage(doc, image, imageSize))

(***************************************************************************)
(* save(): the paths, the serialised bytes, the file writes and the        *)
(* press-ready build.                                                      *)
(***************************************************************************)
Path(dir, prefix, id) == [dir |-> dir, prefix |-> prefix, id |-> id]
NoPath == Path("", "", 0)

\* path.join(os.tmpdir(), `vivliostyle-cli-${uuid()}.pdf`)
TmpPath(uuid) == Path("tmpdir", "vivliostyle-cli-", uuid)

\* uuid/v1: a time-based id, different from every id drawn before
Uuid(clock) == clock + 1

\* the output paths a caller can name, temporary files of earlier runs included
OutputPaths(clock) ==
    {Path("cwd", "book", 0), Path("tmpdir", "book", 0)} \cup
    { TmpPath(u) : u \in 1..clock }

SaveOptions == {NoArg, Arg(FALSE), Arg(TRUE)}

\* { pressReady = false }: SaveOption
PressReady(option) == IF option.given THEN option.v ELSE FALSE

InputPath_Output(output, pressReady, clock) == output

\* const input = pressReady ? path.join(os.tmpdir(), ...) : output
InputPath(output, pressReady, clock) ==
    IF pressReady THEN TmpPath(Uuid(clock)) ELSE output

\* this.document.save()
Serialize(doc) == [pdf |-> doc]

Event(op, path, target) == [op |-> op, path |-> path, target |-> target]

(***************************************************************************)
(* The loaded documents.                                                   *)
(***************************************************************************)
Page(width, height) == [width |-> FromInt(width), height |-> FromInt(height), drawn |-> <<>>]

LoadedDoc(objects, info, pages) ==
    [context |-> [largestObjectNumber |-> objects,
                  indirectObjects |-> [r \in 1..objects |-> ("Loaded" :> r)],
                  assignLog |-> <<>>],
     catalog |-> ("Pages" :> 1),
     info |-> info,
     pages |-> pages]

LoadedInfos == {EmptyDict, [Producer |-> "Skia/PDF", Creator |-> "Chromium"]}
LoadedPages == SeqsUpTo({Page(w, 800) : w \in PageWidths}, MaxPages) \ {<<>>}
OnePage == <<Page(600, 800)>>

Ops == {"metadata", "toc", "cover"}

IdleSave(clock) ==
    [pc |-> "idle", clock |-> clock, output |-> NoPath, pressReady |-> FALSE,
     input |-> NoPath, pdf |-> Serialize(0), events |-> <<>>]

\* the loaded document and the arguments the caller holds for each operation
InitWith(docs, clocks, trees, tocs, covers) ==
    /\ document \in docs
    /\ loaded = document
    /\ done = {}
    /\ threw = {}
    /\ tocItems \in tocs
    /\ itemsWithRefs = <<>>
    /\ outlineRef = 0
    /\ metaTree \in trees
    /\ coverArg \in covers
    /\ saveCall \in {IdleSave(c) : c \in clocks}

\* an operation of the pipeline may run: nothing has thrown, save() has not begun
MayRun(op) ==
    /\ op \notin done
    /\ threw = {}
    /\ saveCall.pc = "idle"

(***************************************************************************)
(* The operations.                                                         *)
(***************************************************************************)
TocCall ==
    /\ MayRun("toc")
    /\ LET result == toc(document, tocItems)
       IN /\ document' = result.document
          /\ itemsWithRefs' = result.itemsWithRefs
          /\ outlineRef' = result.outlineRef
    /\ done' = done \cup {"toc"}
    /\ UNCHANGED <<loaded, threw, tocItems, metaTree, coverArg, saveCall>>

MetadataCall ==
    /\ MayRun("metadata")
    /\ LET result == metadata(document, metaTree)
       IN /\ document' = result.document
          /\ done' = IF result.threw THEN done ELSE done \cup {"metadata"}
          /\ threw' = IF result.threw THEN threw \cup {"metadata"} ELSE threw
    /\ UNCHANGED <<loaded, tocItems, itemsWithRefs, outlineRef, metaTree, coverArg, saveCall>>

CoverCall ==
    /\ MayRun("cover")
    /\ LET result == cover(document, coverArg)
       IN /\ document' = result.document
          /\ done' = IF result.threw THEN done ELSE done \cup {"cover"}
          /\ threw' = IF result.threw THEN threw \cup {"cover"} ELSE threw
    /\ UNCHANGED <<loaded, tocItems, itemsWithRefs, outlineRef, metaTree, coverArg, saveCall>>

\* lines 54-56: the arguments are bound and the input path is chosen
SaveCall ==
    /\ saveCall.pc = "idle"
    /\ threw = {}
    /\ \E output \in OutputPaths(saveCall.clock), option \in SaveOptions :
         saveCall' = [saveCall EXCEPT
                        !.pc = "serializing",
                        !.output = output,
                        !.pressReady = PressReady(option),
                        !.input = InputPath(output, PressReady(option), saveCall.clock),
                        !.clock = IF PressReady(option) THEN Uuid(@) ELSE @]
    /\ UNCHANGED <<document, loaded, done, threw, tocItems, itemsWithRefs, outlineRef,
                   metaTree, coverArg>>

\* line 58: const pdf = await this.document.save()
SaveSerialize ==
    /\ saveCall.pc = "serializing"
    /\ saveCall' = [saveCall EXCEPT !.pc = "writing",
                                    !.pdf = Serialize(document),
                                    !.events = Append(@, Event("serialize", NoPath, NoPath))]
    /\ UNCHANGED <<document, loaded, done, threw, tocItems, itemsWithRefs, outlineRef,
                   metaTree, coverArg>>

\* line 59: await fs.promises.writeFile(input, pdf) resolves, or rejects
SaveWrite ==
    /\ saveCall.pc = "writing"
    /\ \/ /\ saveCall' = [saveCall EXCEPT
                            !.pc = IF saveCall.pressReady THEN "building" ELSE "returned",
                            !.events = Append(@, Event("write", saveCall.input, NoPath))]
          /\ UNCHANGED threw
       \/ /\ saveCall' = [saveCall EXCEPT !.pc = "threw"]
          /\ threw' = threw \cup {"save"}
    /\ UNCHANGED <<document, loaded, done, tocItems, itemsWithRefs, outlineRef,
                   metaTree, coverArg>>

\* lines 61-63: await pressReadyModule.build({ input, output }) resolves, or rejects
SaveBuild ==
    /\ saveCall.pc = "building"
    /\ \/ /\ saveCall' = [saveCall EXCEPT
                            !.pc = "returned",
                            !.events = Append(@, Event("build", saveCall.input, saveCall.output))]
          /\ UNCHANGED threw
       \/ /\ saveCall' = [saveCall EXCEPT
                            !.pc = "threw",
                            !.events = Append(@, Event("build", saveCall.input, saveCall.output))]
          /\ threw' = threw \cup {"save"}
    /\ UNCHANGED <<document, loaded, done, tocItems, itemsWithRefs, outlineRef,
                   metaTree, coverArg>>

(***************************************************************************)
(* The specifications: each operation on its inputs, and the pipeline.     *)
(***************************************************************************)
TocInputs == {NoArg} \cup {Arg(f) : f \in Forests}

InitToc ==
    InitWith({LoadedDoc(n, EmptyDict, OnePage) : n \in 1..MaxLoadedObjects}, {0},
             {EmptyDict}, TocInputs, {NoArg})
NextToc == TocCall
SpecToc == InitToc /\ [][NextToc]_vars

InitMeta ==
    \E S \in TermSets(MaxTerms) :
        InitWith({LoadedDoc(1, info, OnePage) : info \in LoadedInfos}, {0},
                 RecordsOver(S, MaxVals), {NoArg}, {NoArg})
NextMeta == MetadataCall
SpecMeta == InitMeta /\ [][NextMeta]_vars

InitCover ==
    InitWith({LoadedDoc(1, EmptyDict, pages) : pages \in LoadedPages}, {0},
             {EmptyDict}, {NoArg}, CoverInputs)
NextCover == CoverCall
SpecCover == InitCover /\ [][NextCover]_vars

InitSave ==
    InitWith({LoadedDoc(n, EmptyDict, OnePage) : n \in 1..MaxLoadedObjects}, 0..MaxUuid,
             {EmptyDict}, {NoArg}, {NoArg})
NextSave == SaveCall \/ SaveSerialize \/ SaveWrite \/ SaveBuild
SpecSave == InitSave /\ [][NextSave]_vars

PipeRecords ==
    { EmptyDict,
      [title |-> <<Entry("A")>>, creator |-> <<Entry("A"), Entry("")>>],
      [contributor |-> <<Entry("A"), RoleEntry("B", <<"bkp">>)>>, language |-> <<Entry("A")>>],
      [subject |-> <<>>, date |-> <<Entry("A")>>],
      [description |-> <<>>] }

PipeCovers ==
    { NoArg,
      Arg([pathname |-> "cover.png", mediaType |-> "image/gif",
           file |-> [readable |-> TRUE, width |-> 800, height |-> 800]]),
      Arg([pathname |-> "cover.png", mediaType |-> "image/png", file |-> [readable |-> FALSE]]),
      Arg([pathname |-> "cover.png", mediaType |-> "image/png",
           file |-> [readable |-> TRUE, width |-> 73, height |-> 800]]),
      Arg([pathname |-> "cover.png", mediaType |-> "image/jpeg",
           file |-> [readable |-> TRUE, width |-> 1200, height |-> 800]]) }

PipeTocs == {NoArg} \cup UNION { {Arg(f) : f \in ForestsOf(n, 0)} : n \in 0..PipeNodes }

Init ==
    InitWith({LoadedDoc(MaxLoadedObjects, info, pages) :
                info \in LoadedInfos,
                pages \in {OnePage, <<Page(612, 800), Page(600, 800)>>}}, {0},
             PipeRecords, PipeTocs, PipeCovers)

Next ==
    \/ MetadataCall
    \/ TocCall
    \/ CoverCall
    \/ (done = Ops /\ SaveCall)
    \/ SaveSerialize
    \/ SaveWrite
    \/ SaveBuild

Spec == Init /\ [][Next]_vars

(***************************************************************************)
(* What the claims speak of.                                               *)
(***************************************************************************)
Objects == document.context.indirectObjects

RECURSIVE NodesOf(_)
NodesOf(items) ==
    UNION { {items[i]} \cup NodesOf(items[i].children) : i \in 1..Len(items) }

RECURSIVE IdsOf(_)
IdsOf(items) ==
    UNION { {items[i].id} \cup IdsOf(items[i].children) : i \in 1..Len(items) }

\* the children sequences of a forest, the top-level sequence included
SiblingSeqs(items) == {items} \cup { n.children : n \in NodesOf(items) }

\* the reference of the outline dict whose Dest names the TOC node id
RefOf(id) ==
    CHOOSE r \in DOMAIN Objects : "Dest" \in DOMAIN Objects[r] /\ Objects[r].Dest = NameOf(id)

DictOf(id) == Objects[RefOf(id)]

TocReturned == "toc" \in done
TocBuilt == TocReturned /\ tocItems.given /\ Len(tocItems.v) > 0
OutlineRoot == Objects[document.catalog.Outlines]

\* C1: after toc(items) on a non-empty forest the outline root's Count is the
\* number of TOC nodes of the whole forest, and the Count of every node with a
\* child is the number of its descendants at all depths, itself not counted.
C1_CountIsDescendants ==
    TocBuilt =>
        /\ OutlineRoot.Count = Cardinality(IdsOf(tocItems.v))
        /\ \A n \in NodesOf(tocItems.v) :
             Len(n.children) > 0 => DictOf(n.id).Count = Cardinality(IdsOf(n.children))

C1_Witness ==
    /\ TocBuilt
    /\ OutlineRoot.Count = MaxNodes
    /\ \E n \in NodesOf(tocItems.v) :
         /\ Len(n.children) > 0
         /\ DictOf(n.id).Count > Len(n.children)

\* C2: in every children sequence, the top-level one included, adjacent
\* siblings a, b are linked a.Next = b's reference and b.Prev = a's reference,
\* the first sibling has no Prev key, the last no Next key, and the chain
\* follows the input order.
C2_SiblingLinks ==
    TocBuilt =>
        \A q \in SiblingSeqs(tocItems.v) :
            \A i \in 1..Len(q) :
                /\ i < Len(q) => /\ "Next" \in DOMAIN DictOf(q[i].id)
                                 /\ DictOf(q[i].id).Next = RefOf(q[i + 1].id)
                                 /\ "Prev" \in DOMAIN DictOf(q[i + 1].id)
                                 /\ DictOf(q[i + 1].id).Prev = RefOf(q[i].id)
                /\ i = 1 => "Prev" \notin DOMAIN DictOf(q[i].id)
                /\ i = Len(q) => "Next" \notin DOMAIN DictOf(q[i].id)

C2_Witness ==
    /\ TocBuilt
    /\ Len(tocItems.v) = 3
    /\ {"Prev", "Next"} \subseteq DOMAIN DictOf(tocItems.v[2].id)
    /\ \E n \in NodesOf(tocItems.v) : Len(n.children) = 2

\* C3: every node with children has First and Last equal to the references
\* of its first and last child, likewise the outline root for the top-level
\* sequence, and a node without children has none of First, Last and Count.
C3_FirstLast ==
    TocBuilt =>
        /\ OutlineRoot.First = RefOf(tocItems.v[1].id)
        /\ OutlineRoot.Last = RefOf(tocItems.v[Len(tocItems.v)].id)
        /\ \A n \in NodesOf(tocItems.v) :
             IF Len(n.children) > 0
             THEN /\ DictOf(n.id).First = RefOf(n.children[1].id)
                  /\ DictOf(n.id).Last = RefOf(n.children[Len(n.children)].id)
             ELSE DOMAIN DictOf(n.id) \cap {"First", "Last", "Count"} = {}

C3_Witness ==
    /\ TocBuilt
    /\ \E n \in NodesOf(tocItems.v) :
         /\ Len(n.children) >= 2
         /\ DictOf(n.id).First # DictOf(n.id).Last
         /\ \E c \in NodesOf(n.children) : "First" \notin DOMAIN DictOf(c.id)

\* C4: toc(items) with an empty or missing sequence returns and leaves the
\* object graph as it was: no Outlines key, no reference allocated, no body
\* assigned.
C4_EmptyTocIsNoOp ==
    (TocReturned /\ (~tocItems.given \/ Len(tocItems.v) = 0)) =>
        /\ "Outlines" \notin DOMAIN document.catalog
        /\ document.context.largestObjectNumber = loaded.context.largestObjectNumber
        /\ document.context.assignLog = <<>>
        /\ document = loaded

C4_Witness ==
    /\ TocReturned
    /\ tocItems.given
    /\ Len(tocItems.v) = 0
    /\ document = loaded

OutlineRefs == {outlineRef} \cup { n.ref : n \in NodesOf(itemsWithRefs) }

Occurrences(log, r) == Cardinality({ i \in 1..Len(log) : log[i] = r })

RefKeys == {"Parent", "Prev", "Next", "First", "Last"}

\* C10: when toc(items) returns for a non-empty forest, the outline root and
\* the TOC nodes hold pairwise distinct references fresh in this graph, each
\* assigned a body exactly once; the catalog's Outlines entry and every
\* Parent, Prev, Next, First and Last resolve to one of those bodies; and each
\* node's Parent is the node whose children sequence holds it (the outline
\* root for the top-level nodes).
C10_OutlineWellFormed ==
    TocBuilt =>
        /\ Cardinality(OutlineRefs) = 1 + Cardinality(IdsOf(tocItems.v))
        /\ \A r \in OutlineRefs :
             /\ r \notin DOMAIN loaded.context.indirectObjects
             /\ r > loaded.context.largestObjectNumber
             /\ r \in DOMAIN Objects
             /\ Occurrences(document.context.assignLog, r) = 1
             /\ \A k \in RefKeys \cap DOMAIN Objects[r] : Objects[r][k] \in OutlineRefs
        /\ document.catalog.Outlines = outlineRef
        /\ \A n \in NodesOf(itemsWithRefs) :
             /\ Objects[n.ref].Dest = NameOf(n.id)
             /\ \A i \in 1..Len(n.children) : Objects[n.children[i].ref].Parent = n.ref
        /\ \A i \in 1..Len(itemsWithRefs) : Objects[itemsWithRefs[i].ref].Parent = outlineRef
        /\ IdsOf(itemsWithRefs) = IdsOf(tocItems.v)

C10_Witness ==
    /\ TocBuilt
    /\ Cardinality(OutlineRefs) = 1 + MaxNodes
    /\ \E n \in NodesOf(itemsWithRefs) :
         /\ Len(n.children) > 0
         /\ Objects[n.children[1].ref].Parent = n.ref
         /\ Objects[n.ref].Parent # outlineRef

MetadataReturned == "metadata" \in done

\* metadata() gave the info field a value: it is there and is not the loaded one
WasSet(field) ==
    /\ field \in DOMAIN document.info
    /\ field \in DOMAIN loaded.info => document.info[field] # loaded.info[field]

LanguageWasSet == "Lang" \in DOMAIN document.catalog

Present(term) == term \in DOMAIN metaTree

\* the term is there and the text of its first entry is not empty
FirstText(term) == IF Present(term) /\ Len(metaTree[term]) > 0 THEN metaTree[term][1].v ELSE ""

\* the entries of the contributor term whose first role value is "bkp"
BookProducers ==
    IF ~Present("contributor") THEN {}
    ELSE { i \in 1..Len(metaTree["contributor"]) :
             LET item == metaTree["contributor"][i]
             IN /\ "r" \in DOMAIN item
                /\ "role" \in DOMAIN item.r
                /\ Len(item.r.role) > 0
                /\ item.r.role[1].v = "bkp" }

FirstBookProducer ==
    metaTree["contributor"][CHOOSE i \in BookProducers : \A j \in BookProducers : i <= j]

\* the date term metadata() reads: created, or date when created is absent
DateTerm == IF Present("created") THEN "created" ELSE "date"

\* C5 as stated: each field is set if and only if its source term is present,
\* and Producer is always the fixed tool string.
C5_SetIffPresent ==
    MetadataReturned =>
        /\ document.info.Producer = "Vivliostyle"
        /\ WasSet("Title") <=> Present("title")
        /\ WasSet("Author") <=> Present("creator")
        /\ WasSet("Subject") <=> Present("description")
        /\ WasSet("Keywords") <=> Present("subject")
        /\ WasSet("Creator") <=> Present("contributor")
        /\ LanguageWasSet <=> Present("language")
        /\ WasSet("CreationDate") <=> (Present("created") \/ Present("date"))

\* C5 amended: whenever metadata(record) has run, Producer is the fixed tool
\* string; when it returns, Title, Subject and Language are set if and only if
\* the first entry of title, description and language has a non-empty text,
\* Author if and only if the joined creator texts are non-empty, Keywords if
\* and only if the subject term is present, Creator if and only if the first
\* contributor whose first role value is "bkp" has a non-empty text, and
\* CreationDate if and only if the first entry of created (of date when
\* created is absent) has a non-empty text.
C5_SetIffTruthy ==
    /\ (MetadataReturned \/ "metadata" \in threw) => document.info.Producer = "Vivliostyle"
    /\ MetadataReturned =>
        /\ WasSet("Title") <=> FirstText("title") # ""
        /\ WasSet("Title") => document.info.Title = FirstText("title")
        /\ WasSet("Author") <=>
             (Present("creator") /\ \E i \in 1..Len(metaTree["creator"]) :
                                       metaTree["creator"][i].v # "" \/ Len(metaTree["creator"]) > 1)
        /\ WasSet("Subject") <=> FirstText("description") # ""
        /\ WasSet("Subject") => document.info.Subject = FirstText("description")
        /\ WasSet("Keywords") <=> Present("subject")
        /\ WasSet("Creator") <=> (BookProducers # {} /\ FirstBookProducer.v # "")
        /\ LanguageWasSet <=> FirstText("language") # ""
        /\ LanguageWasSet => document.catalog.Lang = FirstText("language")
        /\ WasSet("CreationDate") <=> FirstText(DateTerm) # ""
        /\ WasSet("CreationDate") => document.info.CreationDate = [date |-> FirstText(DateTerm)]

C5_Witness ==
    /\ MetadataReturned
    /\ loaded.info # EmptyDict
    /\ Present("title") /\ ~WasSet("Title")
    /\ Present("contributor") /\ WasSet("Creator")

\* C6 as stated: Creator is the text of the first contributor entry whose role
\* is "bkp", and is left unset when no contributor entry has that role.
C6_CreatorIsFirstBookProducer ==
    MetadataReturned =>
        IF BookProducers # {}
        THEN "Creator" \in DOMAIN document.info /\ document.info.Creator = FirstBookProducer.v
        ELSE ~WasSet("Creator")

\* C6 amended: Creator is the text of the first contributor entry, in
\* encounter order, whose first role value is "bkp" when that text is not
\* empty, and is left as loaded when there is no such entry or its text is
\* empty, other contributor entries notwithstanding.
C6_CreatorIsFirstBookProducerText ==
    MetadataReturned =>
        IF BookProducers # {} /\ FirstBookProducer.v # ""
        THEN "Creator" \in DOMAIN document.info /\ document.info.Creator = FirstBookProducer.v
        ELSE /\ ~WasSet("Creator")
             /\ DOMAIN document.info \cap {"Creator"} = DOMAIN loaded.info \cap {"Creator"}

C6_Witness ==
    /\ MetadataReturned
    /\ Present("contributor")
    /\ Len(metaTree["contributor"]) = 2
    /\ 1 \notin BookProducers
    /\ 2 \in BookProducers
    /\ WasSet("Creator")
    /\ document.info.Creator = "B"

CoverReturned == "cover" \in done

\* cover() reached the insertion: a pathname, a supported media type, a readable image
CoverInserted ==
    /\ CoverReturned
    /\ coverArg.given
    /\ coverArg.v.pathname # ""
    /\ coverArg.v.mediaType \in {"image/png", "image/jpeg"}
    /\ coverArg.v.file.readable

\* C7: cover() with a supported media type and a readable image inserts one
\* page at index 0 whose width is exactly the width W of the page that was
\* first and whose height is image.height scaled by W / image.width; every
\* page that was at index i is at index i + 1, unchanged.
C7_CoverPageGeometry ==
    CoverInserted =>
        /\ Len(document.pages) = Len(loaded.pages) + 1
        /\ document.pages[1].width = loaded.pages[1].width
        /\ document.pages[1].height =
             MulInt(coverArg.v.file.height,
                    DivInts(IntOf(loaded.pages[1].width), coverArg.v.file.width))
        /\ \A i \in 1..Len(loaded.pages) : document.pages[i + 1] = loaded.pages[i]

\* the part of C7 that does not rest on the arithmetic: one page more, the
\* old pages shifted by one, the image drawn over the whole new page
C7_PagesShift ==
    CoverInserted =>
        /\ Len(document.pages) = Len(loaded.pages) + 1
        /\ \A i \in 1..Len(loaded.pages) : document.pages[i + 1] = loaded.pages[i]
        /\ document.pages[1].drawn[1].width = document.pages[1].width
        /\ document.pages[1].drawn[1].height = document.pages[1].height

SaveReturned == saveCall.pc = "returned"

EventsOf(op) == { i \in 1..Len(saveCall.events) : saveCall.events[i].op = op }

\* C8: save() serialises first; with pressReady false it writes one file, at
\* outputPath, and never invokes the transform; with pressReady true it writes
\* the serialised bytes to a temporary path other than outputPath, never to
\* outputPath, and invokes the transform with that temporary path as input and
\* outputPath as output only after the write has completed.
C8_SaveOrder ==
    /\ \A i \in EventsOf("write") \cup EventsOf("build") : 1 \in EventsOf("serialize") /\ i > 1
    /\ saveCall.pc \in {"writing", "building", "returned"} => saveCall.pdf = Serialize(document)
    /\ ~saveCall.pressReady =>
         /\ EventsOf("build") = {}
         /\ \A i \in EventsOf("write") : saveCall.events[i].path = saveCall.output
         /\ Cardinality(EventsOf("write")) <= 1
         /\ SaveReturned => Cardinality(EventsOf("write")) = 1
    /\ saveCall.pressReady =>
         /\ \A i \in EventsOf("write") :
              /\ saveCall.events[i].path # saveCall.output
              /\ saveCall.events[i].path.dir = "tmpdir"
         /\ \A i \in EventsOf("build") :
              /\ saveCall.events[i].target = saveCall.output
              /\ saveCall.events[i].path # saveCall.output
              /\ \E j \in EventsOf("write") :
                   j < i /\ saveCall.events[j].path = saveCall.events[i].path
         /\ SaveReturned => Cardinality(EventsOf("build")) = 1

C8_Witness ==
    /\ SaveReturned
    /\ saveCall.pressReady
    /\ saveCall.output.dir = "tmpdir"
    /\ saveCall.output.prefix = "vivliostyle-cli-"
    /\ Len(saveCall.events) = 3
    /\ saveCall.events[3].op = "build"

(***************************************************************************)
(* The outline as it is read from the catalog: the forest reached from the *)
(* Outlines entry along First and Next, with each dict's Title, Dest and   *)
(* Count and whether its Parent, Prev and Last point where they must.      *)
(***************************************************************************)
RECURSIVE Walk(_, _, _, _, _)
Walk(objects, ref, parent, prev, fuel) ==
    IF fuel = 0 \/ ref \notin DOMAIN objects THEN <<[broken |-> TRUE]>>
    ELSE LET d == objects[ref]
         IN IF ~({"Title", "Dest", "Parent"} \subseteq DOMAIN d) THEN <<[broken |-> TRUE]>>
            ELSE LET kids == IF "First" \in DOMAIN d
                             THEN Walk(objects, d.First, ref, 0, fuel - 1) ELSE <<>>
                     node == [broken |-> FALSE,
                              title |-> d.Title,
                              dest |-> d.Dest,
                              count |-> IF "Count" \in DOMAIN d THEN d.Count ELSE -1,
                              parentOk |-> d.Parent = parent,
                              prevOk |-> IF prev = 0 THEN "Prev" \notin DOMAIN d
                                         ELSE "Prev" \in DOMAIN d /\ d.Prev = prev,
                              hasLast |-> "Last" \in DOMAIN d,
                              kids |-> kids]
                 IN <<node>> \o (IF "Next" \in DOMAIN d
                                 THEN Walk(objects, d.Next, parent, ref, fuel - 1) ELSE <<>>)

OutlineOf(doc) ==
    IF "Outlines" \notin DOMAIN doc.catalog THEN [present |-> FALSE]
    ELSE LET objects == doc.context.indirectObjects
             root == doc.catalog.Outlines
         IN IF root \notin DOMAIN objects \/ ~({"First", "Count"} \subseteq DOMAIN objects[root])
            THEN [present |-> TRUE, broken |-> TRUE]
            ELSE [present |-> TRUE, broken |-> FALSE,
                  count |-> objects[root].Count,
                  items |-> Walk(objects, objects[root].First, root, 0,
                                 objects[root].Count + 1)]

\* what the claims compare of a document: the info fields, the language, the
\* page sequence and the outline under the catalog's Outlines entry
GraphOf(doc) ==
    [info |-> doc.info,
     lang |-> IF "Lang" \in DOMAIN doc.catalog THEN <<doc.catalog.Lang>> ELSE <<>>,
     pages |-> doc.pages,
     outline |-> OutlineOf(doc)]

\* metadata, then toc, then cover, on the loaded document
InOrder ==
    LET m == metadata(loaded, metaTree).document
        t == toc(m, tocItems).document
    IN cover(t, coverArg).document

\* C9: metadata, toc and cover commute: whatever the order in which the three
\* were applied to the loaded graph, the resulting graph has the same info
\* fields, the same page sequence and the same outline under the catalog's
\* Outlines entry as in the order metadata, toc, cover.
C9_MutatorsCommute ==
    done = Ops => GraphOf(document) = GraphOf(InOrder)

\* cover() inserted a page and toc() built an outline after it
C9_Witness ==
    /\ done = Ops
    /\ CoverInserted
    /\ TocBuilt
    /\ outlineRef > loaded.context.largestObjectNumber + 3
    /\ WasSet("Title")
    /\ OutlineOf(document).items[1].kids # <<>>

====
